---- MODULE Spec2Model ----
(***************************************************************************)
(* Model of analyse.py: the Streamlit "Clinical Trials Explorer" script.   *)
(* One Search click fetches studies, extracts one tuple per study, builds  *)
(* a DataFrame, normalises Start/End, drops rows with a missing date,      *)
(* sorts by Status and renders an HTML table and a Plotly timeline.        *)
(*                                                                         *)
(* Python values are tagged records [t, v]; a Python string is the         *)
(* sequence of its characters, a dict is a function from keys to values,   *)
(* and a raised exception is the value Raised, which propagates through    *)
(* every further access of the same expression.                            *)
(***************************************************************************)
EXTENDS Integers, Sequences, FiniteSets, TLC

VARIABLES pc, status_code, studies, idx, records, df, rendered,
          table_rows, traces, date_in, date_out, date_pc

vars == <<pc, status_code, studies, idx, records, df, rendered,
          table_rows, traces, date_in, date_out, date_pc>>

pipe_vars == <<pc, status_code, studies, idx, records, df, rendered,
               table_rows, traces>>

date_vars == <<date_in, date_out, date_pc>>

(***************************************************************************)
(* Bounds                                                                  *)
(***************************************************************************)
MaxBatch == 3

MaxMonth == 13

MaxDay == 32

(***************************************************************************)
(* Python values                                                           *)
(***************************************************************************)
Str(s) == [t |-> "str", v |-> s]

IntV(n) == [t |-> "int", v |-> <<n>>]

NoneV == [t |-> "none", v |-> <<>>]

ListV == [t |-> "list", v |-> <<>>]

Dict(f) == [t |-> "dict", v |-> f]

EmptyDict == [t |-> "dict", v |-> <<>>]

Raised == [t |-> "raise", v |-> <<>>]

EmptyStr == Str(<<>>)

\* pandas' missing-timestamp marker
NaT == [t |-> "NaT", v |-> <<>>]

\* a pandas Timestamp at midnight of a calendar day
Timestamp(y, m, d) == [t |-> "ts", v |-> <<y, m, d>>]

\* dict.get(key, default); on a value that is no dict the attribute lookup
\* raises AttributeError
Get(d, key, default) ==
  IF d.t = "raise" THEN Raised
  ELSE IF d.t # "dict" THEN Raised
  ELSE IF key \in DOMAIN d.v THEN d.v[key]
  ELSE default

(***************************************************************************)
(* Characters                                                              *)
(***************************************************************************)
UpperChars == <<"A","B","C","D","E","F","G","H","I","J","K","L","M",
                "N","O","P","Q","R","S","T","U","V","W","X","Y","Z">>

LowerChars == <<"a","b","c","d","e","f","g","h","i","j","k","l","m",
                "n","o","p","q","r","s","t","u","v","w","x","y","z">>

Digits == <<"0","1","2","3","4","5","6","7","8","9">>

\* the characters in code-point order
CodePoints == <<" ", "(", ")", ",", "-", "/">> \o Digits \o UpperChars \o LowerChars

Ord(c) == CHOOSE i \in 1..Len(CodePoints) : CodePoints[i] = c

UpperChar(c) ==
  IF \E i \in 1..Len(LowerChars) : LowerChars[i] = c
  THEN UpperChars[CHOOSE i \in 1..Len(LowerChars) : LowerChars[i] = c]
  ELSE c

\* str.upper(); any other type has no such method
Upper(x) ==
  IF x.t = "raise" THEN Raised
  ELSE IF x.t # "str" THEN Raised
  ELSE Str([i \in 1..Len(x.v) |-> UpperChar(x.v[i])])

\* str < str as Python compares: by code point, a proper prefix first
RECURSIVE StrLess(_, _)
StrLess(a, b) ==
  IF b = <<>> THEN FALSE
  ELSE IF a = <<>> THEN TRUE
  ELSE IF Head(a) # Head(b) THEN Ord(Head(a)) < Ord(Head(b))
  ELSE StrLess(Tail(a), Tail(b))

IsDigit(c) == \E i \in 1..10 : Digits[i] = c

DigitVal(c) == (CHOOSE i \in 1..10 : Digits[i] = c) - 1

\* format(x) inside an f-string
PyStr(x) ==
  CASE x.t = "str" -> x.v
    [] x.t = "none" -> <<"N","o","n","e">>
    [] x.t = "int" -> <<Digits[x.v[1] + 1]>>

(***************************************************************************)
(* Dates: pd.to_datetime and normalize_date                                *)
(***************************************************************************)
AllDigits(s) == \A i \in 1..Len(s) : IsDigit(s[i])

RECURSIVE Num(_)
Num(s) == IF s = <<>> THEN 0
          ELSE 10 * Num(SubSeq(s, 1, Len(s) - 1)) + DigitVal(s[Len(s)])

IsLeap(y) == (y % 4 = 0 /\ y % 100 # 0) \/ y % 400 = 0

DaysIn(y, m) ==
  IF m = 2 THEN (IF IsLeap(y) THEN 29 ELSE 28)
  ELSE IF m \in {4, 6, 9, 11} THEN 30
  ELSE 31

ValidYMD(y, m, d) == m \in 1..12 /\ d \in 1..DaysIn(y, m)

\* pd.to_datetime(s) of a string: the ISO 8601 forms YYYY, YYYY-MM and
\* YYYY-MM-DD with fields in range give a Timestamp (a missing month or day
\* is 1); every other string of the modelled inputs gives NaT under
\* errors='coerce'
ParseIso(s) ==
  LET ok4  == Len(s) = 4 /\ AllDigits(s)
      ok7  == Len(s) = 7 /\ AllDigits(SubSeq(s, 1, 4)) /\ s[5] = "-"
                /\ AllDigits(SubSeq(s, 6, 7))
      ok10 == Len(s) = 10 /\ AllDigits(SubSeq(s, 1, 4)) /\ s[5] = "-"
                /\ AllDigits(SubSeq(s, 6, 7)) /\ s[8] = "-"
                /\ AllDigits(SubSeq(s, 9, 10))
      y == Num(SubSeq(s, 1, 4))
      m == Num(SubSeq(s, 6, 7))
      d == Num(SubSeq(s, 9, 10))
  IN  IF ok4 THEN Timestamp(y, 1, 1)
      ELSE IF ok7 /\ ValidYMD(y, m, 1) THEN Timestamp(y, m, 1)
      ELSE IF ok10 /\ ValidYMD(y, m, d) THEN Timestamp(y, m, d)
      ELSE NaT

\* pd.to_datetime(x, errors='coerce'): None is missing, an integer counts
\* nanoseconds from the epoch, a string is parsed
to_datetime(x) ==
  CASE x.t = "none" -> NaT
    [] x.t = "int" -> Timestamp(1970, 1, 1)
    [] x.t = "str" -> ParseIso(x.v)

\* variant: the day is appended to every string of 7 characters or more
normalize_date_ge7(date_str) ==
  IF date_str.t = "str" /\ Len(date_str.v) >= 7
  THEN to_datetime(Str(date_str.v \o <<"-", "0", "1">>))
  ELSE to_datetime(date_str)

normalize_date(date_str) ==
  IF date_str.t = "str" /\ Len(date_str.v) = 7
  THEN to_datetime(Str(date_str.v \o <<"-", "0", "1">>))
  ELSE to_datetime(date_str)

(***************************************************************************)
(* Record extraction                                                       *)
(***************************************************************************)
StudyUrl == <<"https://clinicaltrials.gov/study/">>

\* the body of the try block for one study: the 9-tuple appended to
\* records, or Raised when any access raises
ExtractRecord(study) ==
  LET sec == Get(study, "protocolSection", EmptyDict)
      id_mod == Get(sec, "identificationModule", EmptyDict)
      status_mod == Get(sec, "statusModule", EmptyDict)
      sponsor_mod == Get(sec, "sponsorCollaboratorsModule", EmptyDict)
      design_mod == Get(sec, "designModule", EmptyDict)
      nct_id == Get(id_mod, "nctId", EmptyStr)
      title == Get(id_mod, "briefTitle", EmptyStr)
      sponsor == Get(Get(sponsor_mod, "leadSponsor", EmptyDict), "name", Str(<<"N", "/", "A">>))
      status == Upper(Get(status_mod, "overallStatus", EmptyStr))
      start_date == Get(Get(status_mod, "startDateStruct", EmptyDict), "date", EmptyStr)
      end_date == Get(Get(status_mod, "completionDateStruct", EmptyDict), "date", EmptyStr)
      last_verified == Get(Get(status_mod, "lastUpdatePostDateStruct", EmptyDict), "date", EmptyStr)
      study_type == Get(design_mod, "studyType", EmptyStr)
      fields == <<nct_id, title, sponsor, status, start_date, end_date,
                  last_verified, study_type>>
  IN  IF \E k \in 1..Len(fields) : fields[k].t = "raise"
      THEN Raised
      ELSE [t |-> "tuple",
            v |-> fields \o <<Str(StudyUrl \o PyStr(nct_id))>>]

(***************************************************************************)
(* DataFrame                                                               *)
(***************************************************************************)
Columns == <<"NCT ID", "Title", "Sponsor", "Status", "Start", "End",
             "Last Verified", "Study Type", "Link">>

ColumnSet == {Columns[k] : k \in 1..Len(Columns)}

ColumnIndex(c) == CHOOSE k \in 1..Len(Columns) : Columns[k] = c

\* pd.DataFrame(records, columns=[...]): one row per tuple
DataFrame(recs) ==
  [r \in 1..Len(recs) |-> [c \in ColumnSet |-> recs[r][ColumnIndex(c)]]]

\* df[col] = df[col].apply(normalize_date)
ApplyNormalize(frame, col) ==
  [r \in 1..Len(frame) |->
     [c \in ColumnSet |-> IF c = col THEN normalize_date(frame[r][c])
                          ELSE frame[r][c]]]

\* variant: only Start is in the subset
dropna_start_only(frame) ==
  SelectSeq(frame, LAMBDA row : row["Start"].t # "NaT")

\* df.dropna(subset=["Start", "End"])
dropna(frame) ==
  SelectSeq(frame, LAMBDA row : row["Start"].t # "NaT" /\ row["End"].t # "NaT")

\* the rows of frame in the order p, when that order is nondecreasing in
\* Status; sort_values uses quicksort, which places equal keys in any order
IsStatusOrder(frame, p) ==
  /\ \A a, b \in 1..Len(frame) : a # b => p[a] # p[b]
  /\ \A a \in 1..Len(frame) - 1 :
       ~ StrLess(frame[p[a + 1]]["Status"].v, frame[p[a]]["Status"].v)

\* the lambda of line 118-120
LinkHtml(x) ==
  Str(<<"<a href=\"">> \o StudyUrl \o PyStr(x) \o <<"\" target=\"_blank\">">>
      \o PyStr(x) \o <<"</a>">>)

SetLink(frame) ==
  [r \in 1..Len(frame) |->
     [c \in ColumnSet |-> IF c = "Link" THEN LinkHtml(frame[r]["NCT ID"])
                          ELSE frame[r][c]]]

DisplayColumns == {"Link", "Title", "Sponsor", "Status", "Study Type",
                   "Start", "End", "Last Verified"}

\* df_display: the projection rendered by to_html
df_display(frame) ==
  [r \in 1..Len(frame) |-> [c \in DisplayColumns |-> frame[r][c]]]

(***************************************************************************)
(* Timeline                                                                *)
(***************************************************************************)
\* positions of the rows that open a new Status value, in row order
FirstOfStatus(frame) ==
  {r \in 1..Len(frame) :
     \A q \in 1..(r - 1) : frame[q]["Status"] # frame[r]["Status"]}

RECURSIVE SortedSeq(_)
SortedSeq(S) ==
  IF S = {} THEN <<>>
  ELSE LET lo == CHOOSE x \in S : \A y \in S : x <= y
       IN  <<lo>> \o SortedSeq(S \ {lo})

\* px.timeline(..., color="Status"): one trace per Status value in order of
\* first appearance, holding that value's rows in row order
timeline(frame) ==
  LET firsts == SortedSeq(FirstOfStatus(frame))
      members(s) == SelectSeq(frame, LAMBDA row : row["Status"] = s)
  IN  [g \in 1..Len(firsts) |->
         LET s == frame[firsts[g]]["Status"]
         IN  [name |-> s,
              bars |-> [j \in 1..Len(members(s)) |->
                          [y |-> members(s)[j]["NCT ID"],
                           base |-> members(s)[j]["Start"],
                           x_end |-> members(s)[j]["End"],
                           customdata |-> members(s)[j]["Link"],
                           text |-> EmptyStr]]]]

\* fig.update_traces(text=df["NCT ID"]): every trace receives the whole
\* column, and its j-th bar shows the j-th element of it
update_traces(trs, frame) ==
  [g \in 1..Len(trs) |->
     [name |-> trs[g].name,
      bars |-> [j \in 1..Len(trs[g].bars) |->
                  [trs[g].bars[j] EXCEPT !.text = frame[j]["NCT ID"]]]]]

(***************************************************************************)
(* Inputs: the studies a response can carry                                *)
(***************************************************************************)
Fmt2(n) == <<Digits[((n \div 10) % 10) + 1], Digits[(n % 10) + 1]>>

Fmt4(n) == Fmt2(n \div 100) \o Fmt2(n % 100)

FmtYM(y, m) == Fmt4(y) \o <<"-">> \o Fmt2(m)

FmtYMD(y, m, d) == FmtYM(y, m) \o <<"-">> \o Fmt2(d)

DateStruct(s) == Dict([date |-> Str(s)])

\* a study with every extracted path present
Study(id, title, sponsor, status, start, end, verified, kind) ==
  Dict([protocolSection |-> Dict(
    [identificationModule |-> Dict([nctId |-> Str(id), briefTitle |-> Str(title)]),
     statusModule |-> Dict([overallStatus |-> Str(status),
                            startDateStruct |-> DateStruct(start),
                            completionDateStruct |-> DateStruct(end),
                            lastUpdatePostDateStruct |-> DateStruct(verified)]),
     sponsorCollaboratorsModule |-> Dict([leadSponsor |-> Dict([name |-> Str(sponsor)])]),
     designModule |-> Dict([studyType |-> Str(kind)])])])

\* a study whose protocolSection holds only a statusModule
StatusOnly(status_mod) == Dict([protocolSection |-> Dict([statusModule |-> Dict(status_mod)])])

COMPLETED == <<"C","O","M","P","L","E","T","E","D">>

RECRUITING == <<"R","E","C","R","U","I","T","I","N","G">>

Recruiting == <<"R","e","c","r","u","i","t","i","n","g">>

Samples ==
  << \* well-formed, day-level dates
     Study(<<"A">>, <<"t","1">>, <<"s","1">>, RECRUITING,
           FmtYMD(2021, 3, 1), FmtYMD(2021, 4, 1), FmtYMD(2022, 1, 1), <<"I">>),
     Study(<<"B">>, <<"t","2">>, <<"s","2">>, Recruiting,
           FmtYMD(2020, 1, 1), FmtYMD(2020, 6, 1), <<>>, <<"O">>),
     Study(<<"C">>, <<"t","3">>, <<"s","1">>, COMPLETED,
           FmtYMD(2020, 1, 1), FmtYMD(2020, 2, 1), <<"n","/","a">>, <<"I">>),
     \* month-level start, year-only end
     Study(<<"A">>, <<"t","4">>, <<"s","2">>, COMPLETED,
           FmtYM(2020, 5), Fmt4(2021), FmtYM(2021, 6), <<"O">>),
     \* end date out of range
     Study(<<"B">>, <<"t","5">>, <<"s","1">>, RECRUITING,
           FmtYMD(2020, 1, 1), FmtYM(2021, 13), FmtYMD(2022, 1, 1), <<"I">>),
     \* no id, no sponsor, no status
     StatusOnly([startDateStruct |-> DateStruct(FmtYMD(2020, 1, 1)),
                 completionDateStruct |-> DateStruct(FmtYM(2020, 2))]),
     \* nothing at all
     EmptyDict,
     \* malformed: the study is a list, no mapping
     ListV,
     \* malformed: protocolSection is a plain string
     Dict([protocolSection |-> Str(<<"x">>)]),
     \* malformed: overallStatus is null
     StatusOnly([overallStatus |-> NoneV,
                 startDateStruct |-> DateStruct(FmtYMD(2020, 1, 1)),
                 completionDateStruct |-> DateStruct(FmtYMD(2020, 2, 1))]),
     \* malformed: leadSponsor is a plain string
     Dict([protocolSection |-> Dict(
       [identificationModule |-> Dict([nctId |-> Str(<<"B">>)]),
        sponsorCollaboratorsModule |-> Dict([leadSponsor |-> Str(<<"s","1">>)])])]),
     \* malformed: startDateStruct is a plain string
     StatusOnly([overallStatus |-> Str(COMPLETED),
                 startDateStruct |-> Str(FmtYMD(2020, 1, 1)),
                 completionDateStruct |-> DateStruct(FmtYMD(2020, 2, 1))]) >>

Years == {2020, 2021}

\* the values handed to normalize_date
DateInputs ==
  {Str(Fmt4(y)) : y \in Years}
  \cup {Str(FmtYM(y, m)) : y \in Years, m \in 0..MaxMonth}
  \cup {Str(FmtYMD(y, m, d)) : y \in Years, m \in 0..MaxMonth, d \in 0..MaxDay}
  \cup {EmptyStr, Str(<<"n","/","a">>), Str(<<"u","n","k","n","o","w","n">>),
        Str(<<"2","0","2","1","-","0","x">>), NoneV, IntV(5)}

(***************************************************************************)
(* The script                                                              *)
(***************************************************************************)
Init ==
  /\ pc = "idle"
  /\ status_code = 0
  /\ studies = <<>>
  /\ idx = 0
  /\ records = <<>>
  /\ df = <<>>
  /\ rendered = <<>>
  /\ table_rows = <<>>
  /\ traces = <<>>
  /\ date_in = NoneV
  /\ date_out = NaT
  /\ date_pc = "off"

\* the Search button is clicked and requests.get returns (lines 15-29)
Search ==
  /\ pc = "idle"
  /\ \E code \in {200, 500} :
       /\ status_code' = code
       /\ IF code # 200
          THEN /\ rendered' = <<"error">>
               /\ pc' = "done"
               /\ UNCHANGED <<studies, idx>>
          ELSE /\ \E n \in 0..MaxBatch : \E f \in [1..n -> 1..Len(Samples)] :
                    studies' = [k \in 1..n |-> Samples[f[k]]]
               /\ idx' = 1
               /\ pc' = "extract"
               /\ UNCHANGED rendered
  /\ UNCHANGED <<records, df, table_rows, traces, date_vars>>

\* variant: the except clause leaves the loop instead of continuing
ExtractStep_break ==
  /\ pc = "extract"
  /\ idx <= Len(studies)
  /\ LET rec == ExtractRecord(studies[idx])
     IN  /\ records' = IF rec.t = "raise" THEN records ELSE Append(records, rec.v)
         /\ idx' = IF rec.t = "raise" THEN Len(studies) + 1 ELSE idx + 1
  /\ UNCHANGED <<pc, status_code, studies, df, rendered, table_rows, traces, date_vars>>

\* one iteration of the for loop (lines 30-96)
ExtractStep ==
  /\ pc = "extract"
  /\ idx <= Len(studies)
  /\ LET rec == ExtractRecord(studies[idx])
     IN  records' = IF rec.t = "raise" THEN records ELSE Append(records, rec.v)
  /\ idx' = idx + 1
  /\ UNCHANGED <<pc, status_code, studies, df, rendered, table_rows, traces, date_vars>>

\* variant: the warning branch has no else and falls through to the frame
CheckRecords_fallthrough ==
  /\ pc = "extract"
  /\ idx > Len(studies)
  /\ rendered' = IF records = <<>> THEN <<"warning">> ELSE rendered
  /\ pc' = "frame"
  /\ UNCHANGED <<status_code, studies, idx, records, df, table_rows, traces, date_vars>>

\* the loop has ended: if not records (lines 98-100)
CheckRecords ==
  /\ pc = "extract"
  /\ idx > Len(studies)
  /\ IF records = <<>>
     THEN /\ rendered' = <<"warning">>
          /\ pc' = "done"
     ELSE /\ pc' = "frame"
          /\ UNCHANGED rendered
  /\ UNCHANGED <<status_code, studies, idx, records, df, table_rows, traces, date_vars>>

\* lines 102-120: build, normalise, dropna, sort_values, Link
BuildFrame ==
  /\ pc = "frame"
  /\ \E kept \in {dropna(ApplyNormalize(ApplyNormalize(DataFrame(records), "Start"), "End"))} :
       \E p \in [1..Len(kept) -> 1..Len(kept)] :
         /\ IsStatusOrder(kept, p)
         /\ df' = SetLink([k \in 1..Len(kept) |-> kept[p[k]]])
  /\ pc' = "table"
  /\ UNCHANGED <<status_code, studies, idx, records, rendered, table_rows, traces, date_vars>>

\* lines 123-125
RenderTable ==
  /\ pc = "table"
  /\ table_rows' = df_display(df)
  /\ rendered' = Append(rendered, "table")
  /\ pc' = "chart"
  /\ UNCHANGED <<status_code, studies, idx, records, df, traces, date_vars>>

\* lines 138-191
RenderChart ==
  /\ pc = "chart"
  /\ traces' = update_traces(timeline(df), df)
  /\ rendered' = Append(rendered, "chart")
  /\ pc' = "done"
  /\ UNCHANGED <<status_code, studies, idx, records, df, table_rows, date_vars>>

\* the next interaction reruns the script from the top with nothing shown
Rerun ==
  /\ pc = "done"
  /\ pc' = "idle"
  /\ status_code' = 0
  /\ studies' = <<>>
  /\ idx' = 0
  /\ records' = <<>>
  /\ df' = <<>>
  /\ rendered' = <<>>
  /\ table_rows' = <<>>
  /\ traces' = <<>>
  /\ UNCHANGED date_vars

Next == Search \/ ExtractStep \/ CheckRecords \/ BuildFrame \/ RenderTable
          \/ RenderChart \/ Rerun

Spec == Init /\ [][Next]_vars

(***************************************************************************)
(* normalize_date on its own                                               *)
(***************************************************************************)
InitDate ==
  /\ pc = "idle"
  /\ status_code = 0
  /\ studies = <<>>
  /\ idx = 0
  /\ records = <<>>
  /\ df = <<>>
  /\ rendered = <<>>
  /\ table_rows = <<>>
  /\ traces = <<>>
  /\ date_in \in DateInputs
  /\ date_out = NaT
  /\ date_pc = "call"

\* Series.apply calls normalize_date on one element (lines 112-113)
CallNormalize ==
  /\ date_pc = "call"
  /\ date_out' = normalize_date(date_in)
  /\ date_pc' = "returned"
  /\ UNCHANGED <<date_in, pipe_vars>>

\* apply moves on to the next element
NextElement ==
  /\ date_pc = "returned"
  /\ \E x \in DateInputs : date_in' = x
  /\ date_out' = NaT
  /\ date_pc' = "call"
  /\ UNCHANGED pipe_vars

NextDate == CallNormalize \/ NextElement

SpecDate == InitDate /\ [][NextDate]_vars

(***************************************************************************)
(* Properties                                                              *)
(***************************************************************************)
FrameBuilt == pc \in {"table", "chart"} \/ (pc = "done" /\ "table" \in {rendered[k] : k \in 1..Len(rendered)})

ChartShown == pc = "done" /\ rendered = <<"table", "chart">>

\* the rows that survive dropna, before sorting
Survivors == dropna(ApplyNormalize(ApplyNormalize(DataFrame(records), "Start"), "End"))

RECURSIVE FlatBars(_)
FlatBars(trs) == IF trs = <<>> THEN <<>> ELSE Head(trs).bars \o FlatBars(Tail(trs))

\* C1: every record of the canonical set has a non-empty id and the ids of
\* the canonical set are pairwise distinct.
C1_DedupInvariant ==
  FrameBuilt =>
    /\ \A r \in 1..Len(df) : df[r]["NCT ID"] # EmptyStr
    /\ \A a, b \in 1..Len(df) : a # b => df[a]["NCT ID"] # df[b]["NCT ID"]

\* C2: every canonical record has a valid start and a valid end; exactly the
\* records whose start or end does not normalise to a date are excluded,
\* whatever their last-verified date, and the table shows the remaining ones.
C2_DateCompleteness ==
  FrameBuilt =>
    /\ \A r \in 1..Len(df) : df[r]["Start"].t = "ts" /\ df[r]["End"].t = "ts"
    /\ Len(df) = Cardinality({k \in 1..Len(records) :
                     /\ normalize_date(records[k][ColumnIndex("Start")]).t = "ts"
                     /\ normalize_date(records[k][ColumnIndex("End")]).t = "ts"})
    /\ (pc \in {"chart", "done"} => Len(table_rows) = Len(df))

\* a batch in which one record is dropped for its dates and a kept record
\* has no usable last-verified date
C2_Witness ==
  /\ ChartShown
  /\ Len(df) >= 1
  /\ Len(df) < Len(records)
  /\ \E r \in 1..Len(df) : normalize_date(df[r]["Last Verified"]).t = "NaT"

DateKey(ts) == ts.v[1] * 10000 + ts.v[2] * 100 + ts.v[3]

\* position of row k of rows in the stable order by (Start, End)
StablePosition(rows, k) ==
  1 + Cardinality({j \in 1..Len(rows) :
        \/ DateKey(rows[j]["Start"]) < DateKey(rows[k]["Start"])
        \/ /\ DateKey(rows[j]["Start"]) = DateKey(rows[k]["Start"])
           /\ DateKey(rows[j]["End"]) < DateKey(rows[k]["End"])
        \/ /\ DateKey(rows[j]["Start"]) = DateKey(rows[k]["Start"])
           /\ DateKey(rows[j]["End"]) = DateKey(rows[k]["End"])
           /\ j < k})

\* C3: the rows are ordered by start ascending, then end ascending, and
\* rows equal on both keep their input order.
C3_SortOrder ==
  FrameBuilt =>
    \A k \in 1..Len(Survivors) :
      df[StablePosition(Survivors, k)]["NCT ID"] = Survivors[k]["NCT ID"]

BarCount(label) ==
  Cardinality({j \in 1..Len(FlatBars(traces)) : LinkHtml(FlatBars(traces)[j].text) = label})

RowCount(label) ==
  Cardinality({r \in 1..Len(table_rows) : table_rows[r]["Link"] = label})

\* C4: the chart has one bar per table row, the labels shown on the bars are
\* the same multiset as the labels of the table rows, and each bar shows the
\* label of the record whose interval it draws.
C4_TableTimelineAgree ==
  ChartShown =>
    /\ Len(FlatBars(traces)) = Len(table_rows)
    /\ \A r \in 1..Len(table_rows) :
         BarCount(table_rows[r]["Link"]) = RowCount(table_rows[r]["Link"])
    /\ \A j \in 1..Len(FlatBars(traces)) :
         FlatBars(traces)[j].text = FlatBars(traces)[j].y

\* id followed by the rank in parentheses
barLabel(id, rank) == Str(id.v \o <<" ", "(">> \o PyStr(IntV(rank)) \o <<")">>)

\* C5: the k-th visible record, in sort order, is labelled with its id
\* followed by its rank k in parentheses, k running densely from 1 to N.
C5_DenseRankLabels ==
  ChartShown =>
    /\ Len(FlatBars(traces)) = Len(df)
    /\ \A k \in 1..Len(df) :
         FlatBars(traces)[k].text = barLabel(df[k]["NCT ID"], k)

\* C6: when no record survives extraction and date filtering, the no-results
\* indication is rendered and neither a table nor a chart is.
C6_EmptyResult ==
  (pc = "done" /\ status_code = 200 /\ Survivors = <<>>) => rendered = <<"warning">>

\* the value at a path of keys, the default when a key is missing, Raised
\* when a value on the way is no mapping
RECURSIVE AtPath(_, _, _)
AtPath(x, path, default) ==
  IF path = <<>> THEN x
  ELSE IF x.t # "dict" THEN Raised
  ELSE IF Head(path) \notin DOMAIN x.v THEN default
  ELSE AtPath(x.v[Head(path)], Tail(path), default)

FieldPaths ==
  << <<"protocolSection", "identificationModule", "nctId">>,
     <<"protocolSection", "identificationModule", "briefTitle">>,
     <<"protocolSection", "sponsorCollaboratorsModule", "leadSponsor", "name">>,
     <<"protocolSection", "statusModule", "overallStatus">>,
     <<"protocolSection", "statusModule", "startDateStruct", "date">>,
     <<"protocolSection", "statusModule", "completionDateStruct", "date">>,
     <<"protocolSection", "statusModule", "lastUpdatePostDateStruct", "date">>,
     <<"protocolSection", "designModule", "studyType">> >>

FieldDefault(k) == IF k = 3 THEN Str(<<"N", "/", "A">>) ELSE EmptyStr

FieldAt(study, k) == AtPath(study, FieldPaths[k], FieldDefault(k))

Malformed(study) ==
  \/ \E k \in 1..Len(FieldPaths) : FieldAt(study, k).t = "raise"
  \/ FieldAt(study, 4).t # "str"

\* the records due from the first n studies
RECURSIVE Due(_)
Due(n) ==
  IF n = 0 THEN <<>>
  ELSE IF Malformed(studies[n]) THEN Due(n - 1)
  ELSE Append(Due(n - 1), [k \in 1..Len(FieldPaths) |->
         IF k = 4 THEN Upper(FieldAt(studies[n], k)) ELSE FieldAt(studies[n], k)])

NoLowerCase(s) == \A i \in 1..Len(s) : \A j \in 1..Len(LowerChars) : s[i] # LowerChars[j]

\* C7: after each loop iteration the records are exactly those of the
\* well-shaped studies seen so far, in input order, each field read at its
\* path with its default, the status in upper case; malformed studies
\* contribute nothing and do not stop the loop.
C7_SkipMalformed ==
  pc \in {"extract", "frame", "table", "chart"} =>
    /\ idx \in 1..(Len(studies) + 1)
    /\ \A due \in {Due(idx - 1)} :
         /\ Len(records) = Len(due)
         /\ \A r \in 1..Len(records) :
              /\ SubSeq(records[r], 1, Len(FieldPaths)) = due[r]
              /\ NoLowerCase(records[r][4].v)

\* a malformed study between two well-formed ones, both extracted
C7_Witness ==
  /\ pc = "frame"
  /\ Len(studies) = 3
  /\ ExtractRecord(studies[2]).t = "raise"
  /\ Len(records) = 2
  /\ records[2][3] = Str(<<"N", "/", "A">>)

IsDayLevel(x) ==
  /\ x.t = "str"
  /\ \E y \in Years, m \in 1..12, d \in 1..31 : d <= DaysIn(y, m) /\ x.v = FmtYMD(y, m, d)

IsYearMonth(x) ==
  /\ x.t = "str"
  /\ \E y \in Years, m \in 1..12 : x.v = FmtYM(y, m)

\* C8: an input that is neither a day-level date string nor a year-month
\* string normalises to the invalid marker.
C8_NeverFabricates ==
  (date_pc = "returned" /\ ~ IsDayLevel(date_in) /\ ~ IsYearMonth(date_in))
    => date_out = NaT

\* C9: a valid YYYY-MM string normalises to the first day of that month and
\* a valid YYYY-MM-DD string to that same day.
C9_MonthCompletion ==
  (date_pc = "returned" /\ date_in.t = "str") =>
    \A y \in Years, m \in 1..12 :
      /\ date_in.v = FmtYM(y, m) => date_out = Timestamp(y, m, 1)
      /\ \A d \in 1..DaysIn(y, m) :
           date_in.v = FmtYMD(y, m, d) => date_out = Timestamp(y, m, d)

C9_Witness ==
  /\ date_pc = "returned"
  /\ date_in = Str(FmtYM(2021, 6))
  /\ date_out = Timestamp(2021, 6, 1)

\* C10: a Search ends with exactly one of: the error (status not 200), the
\* warning (status 200, nothing extracted), or the table followed by the
\* chart (status 200, something extracted); error and warning come with no
\* extraction result, table or chart, and the table is rendered only after
\* extraction, date filtering and sorting, the chart only after the table.
C10_Outcomes ==
  /\ rendered \in {<<>>, <<"error">>, <<"warning">>, <<"table">>, <<"table", "chart">>}
  /\ rendered = <<"table">> => (pc = "chart" /\ idx = Len(studies) + 1)
  /\ pc = "done" =>
       /\ rendered \in {<<"error">>, <<"warning">>, <<"table", "chart">>}
       /\ rendered = <<"error">> <=> status_code # 200
       /\ rendered = <<"warning">> <=> (status_code = 200 /\ records = <<>>)
       /\ rendered = <<"table", "chart">> <=> (status_code = 200 /\ records # <<>>)
       /\ rendered # <<"table", "chart">> =>
            (df = <<>> /\ table_rows = <<>> /\ traces = <<>>)
       /\ rendered = <<"error">> => records = <<>>
       /\ rendered = <<"table", "chart">> =>
            (idx = Len(studies) + 1 /\ Len(table_rows) = Len(df))

C10_Witness ==
  /\ pc = "done"
  /\ rendered = <<"table", "chart">>
  /\ Len(records) = 2
  /\ Len(traces) = 2

====
